---- MODULE Spec2Model ----
(***************************************************************************)
(* Model of the arena allocator of src/arena.c / src/arena.h.              *)
(*                                                                         *)
(* Memory is modelled by addresses.  The memory provider (mmap/munmap) is  *)
(* a ledger of mapped blocks; an Arena or Region pointer is the address of *)
(* its block (the embedded first region lives at arena + offsetof(Arena,   *)
(* first)); the heap `regions` maps a Region pointer to the three header   *)
(* fields next, tail, capacity; a pointer returned to the caller is the    *)
(* address &region->data[start].  nullptr is 0.                            *)
(*                                                                         *)
(* size_t arithmetic is done modulo 2^SIZE_WIDTH.  The word and the page   *)
(* are scaled down (16-bit word, 64-byte page); the header sizes and the   *)
(* maximum alignment are those of an LP64 build.                           *)
(***************************************************************************)
EXTENDS Integers, Sequences, FiniteSets, TLC

VARIABLES
    phase,      \* "none" before create_arena, "live", "deleted" after delete_arena, "exited" after exit(1)
    arena,      \* the Arena the caller holds: [ptr, last, new_region_capacity]
    regions,    \* heap: Region pointer -> [next, tail, capacity]
    mem,        \* memory provider: sequence of blocks [addr, size] obtained with mmap, in order
    unmapped,   \* memory provider: sequence of [addr, size] passed to munmap, in order
    blocks,     \* sequence of [ptr, size]: every block returned by _arena_alloc/_arena_fit so far
    call,       \* the last API call and its result
    ncalls,     \* number of alloc/fit/set_region_capacity/print calls made
    accesses,   \* the memory accesses of delete_arena, in order: [kind, block]
    arenaB,     \* a second Arena of the same process (two-arena specification)
    phaseB,     \* its phase
    oplog,      \* per arena, the calls made on it and their results (two-arena specification)
    threads,    \* per thread, its position and locals inside a call (two-thread specification)
    sched       \* how the two threads share the arena: the caller's lock, if any

vars == <<phase, arena, regions, mem, unmapped, blocks, call, ncalls, accesses,
          arenaB, phaseB, oplog, threads, sched>>

peerVars == <<arenaB, phaseB, oplog>>

raceVars == <<threads, sched>>

(***************************************************************************)
(* Platform parameters and bounds                                          *)
(***************************************************************************)
SIZE_WIDTH == 16
SIZE_MOD == 2^SIZE_WIDTH
SIZE_MAX == SIZE_MOD - 1

page_size == 64

REGION_HEADER_SIZE == 24
ARENA_FIRST_OFFSET == 16
ARENA_HEADER_SIZE == ARENA_FIRST_OFFSET + REGION_HEADER_SIZE
MAX_ALIGN == 16

nullptr == 0

MaxCalls == 3
MaxCapacity == 200
MaxRequest == 26
MaxRegionCalls == 2
MaxNear == 96
MaxTwoCalls == 2
MaxRaceCalls == 2

Capacities == {0, 25}
Sizes == {1, 20, 40, 48}
Alignments == {1, 2, 4, 8, 16}
RegionCapacities == {0, 100}

\* Sizes over the whole range of size_t: small ones, and those within MaxNear
\* (more than a page plus a header) of SIZE_MAX.
WideSizes == {1, 20, 48} \cup ((SIZE_MAX - MaxNear)..SIZE_MAX)
WideAlignments == {1, 16}

\* Inputs of the two-arena specification.
TwoSizes == {20, 40}
TwoAlignments == {8}
TwoRegionCapacities == {100}

\* Inputs of the two-thread specification.
RaceSizes == {20, 40}
RaceAlignments == {8}
Tids == {1, 2}

(***************************************************************************)
(* General purpose helper functions and macros                             *)
(***************************************************************************)
Wrap(x) == x % SIZE_MOD

RECURSIVE BitAnd(_, _)
BitAnd(x, y) ==
    IF x = 0 \/ y = 0 THEN 0
    ELSE (x % 2) * (y % 2) + 2 * BitAnd(x \div 2, y \div 2)

BitNot(x) == SIZE_MAX - x

is_power_of_two(v) == v # 0 /\ BitAnd(v, Wrap(v - 1)) = 0

max(a, b) == IF a > b THEN a ELSE b

align(n, alignment) ==
    IF alignment > 0
    THEN LET a == alignment - 1 IN BitAnd(Wrap(n + a), BitNot(a))
    ELSE n

align_to_page(n) == align(n, page_size)

\* mmap: the block is placed at the lowest page-aligned address above every
\* block mapped so far; a zero length or a block that does not fit in the
\* address space makes mmap fail, and alloc_mem then exits.
NextAddr(m) == IF Len(m) = 0 THEN page_size ELSE align_to_page(m[Len(m)].addr + m[Len(m)].size)

alloc_mem(m, size) ==
    LET addr == NextAddr(m) IN
    IF size = 0 \/ addr + size > SIZE_MAX
    THEN [ok |-> FALSE, ptr |-> nullptr, mem |-> m]
    ELSE [ok |-> TRUE, ptr |-> addr, mem |-> Append(m, [addr |-> addr, size |-> size])]

free_mem(u, ptr, size) == Append(u, [addr |-> ptr, size |-> size])

(***************************************************************************)
(* Internal functions                                                      *)
(***************************************************************************)
first(a) == a.ptr + ARENA_FIRST_OFFSET

data(region, start) == region + REGION_HEADER_SIZE + start

free_arena(u, a, rs) == free_mem(u, a.ptr, Wrap(rs[first(a)].capacity + ARENA_HEADER_SIZE))

\* Mutant: the region header is left out of the released size.
free_region_no_header(u, region, rs) == free_mem(u, region, rs[region].capacity)

free_region(u, region, rs) == free_mem(u, region, Wrap(rs[region].capacity + REGION_HEADER_SIZE))

\* Mutant: the block size is not rounded up to the page.
create_region_not_rounded(m, rs, capacity) ==
    LET mem_size == Wrap(capacity + REGION_HEADER_SIZE)
        am == alloc_mem(m, mem_size)
    IN  IF ~am.ok
        THEN [ok |-> FALSE, region |-> nullptr, mem |-> m, regions |-> rs]
        ELSE [ok |-> TRUE, region |-> am.ptr, mem |-> am.mem,
              regions |-> (am.ptr :> [next |-> nullptr, tail |-> 0,
                                       capacity |-> Wrap(mem_size - REGION_HEADER_SIZE)]) @@ rs]

create_region(m, rs, capacity) ==
    LET mem_size == align_to_page(Wrap(capacity + REGION_HEADER_SIZE))
        am == alloc_mem(m, mem_size)
    IN  IF ~am.ok
        THEN [ok |-> FALSE, region |-> nullptr, mem |-> m, regions |-> rs]
        ELSE [ok |-> TRUE, region |-> am.ptr, mem |-> am.mem,
              regions |-> (am.ptr :> [next |-> nullptr, tail |-> 0,
                                       capacity |-> Wrap(mem_size - REGION_HEADER_SIZE)]) @@ rs]

\* Mutant: the new tail forgets the aligned start.
region_alloc_tail_is_size(rs, region, size, alignment) ==
    LET start == align(rs[region].tail, alignment) IN
    IF start >= rs[region].capacity
    THEN [result |-> nullptr, regions |-> rs]
    ELSE LET bytes_available == rs[region].capacity - start IN
         IF size > bytes_available
         THEN [result |-> nullptr, regions |-> rs]
         ELSE [result |-> data(region, start),
               regions |-> [rs EXCEPT ![region].tail = size]]

\* Mutant: the request is not compared with the bytes available.
region_alloc_no_size_check(rs, region, size, alignment) ==
    LET start == align(rs[region].tail, alignment) IN
    IF start >= rs[region].capacity
    THEN [result |-> nullptr, regions |-> rs]
    ELSE [result |-> data(region, start),
          regions |-> [rs EXCEPT ![region].tail = Wrap(start + size)]]

\* Mutant: a request that does not fit still leaves the tail aligned.
region_alloc_fail_keeps_padding(rs, region, size, alignment) ==
    LET start == align(rs[region].tail, alignment) IN
    IF start >= rs[region].capacity
    THEN [result |-> nullptr, regions |-> rs]
    ELSE LET bytes_available == rs[region].capacity - start IN
         IF size > bytes_available
         THEN [result |-> nullptr, regions |-> [rs EXCEPT ![region].tail = start]]
         ELSE [result |-> data(region, start),
               regions |-> [rs EXCEPT ![region].tail = Wrap(start + size)]]

\* Mutant: a request of exactly the bytes available is rejected.
region_alloc_rejects_exact_fit(rs, region, size, alignment) ==
    LET start == align(rs[region].tail, alignment) IN
    IF start >= rs[region].capacity
    THEN [result |-> nullptr, regions |-> rs]
    ELSE LET bytes_available == rs[region].capacity - start IN
         IF size >= bytes_available
         THEN [result |-> nullptr, regions |-> rs]
         ELSE [result |-> data(region, start),
               regions |-> [rs EXCEPT ![region].tail = Wrap(start + size)]]

region_alloc(rs, region, size, alignment) ==
    LET start == align(rs[region].tail, alignment) IN
    IF start >= rs[region].capacity
    THEN [result |-> nullptr, regions |-> rs]
    ELSE LET bytes_available == rs[region].capacity - start IN
         IF size > bytes_available
         THEN [result |-> nullptr, regions |-> rs]
         ELSE [result |-> data(region, start),
               regions |-> [rs EXCEPT ![region].tail = Wrap(start + size)]]

\* Mutant: the new region is sized by new_region_capacity alone.
new_region_alloc_ignores_size(a, rs, m, size, alignment) ==
    LET cr == create_region(m, rs, a.new_region_capacity) IN
    IF ~cr.ok
    THEN [ok |-> FALSE, result |-> nullptr, arena |-> a, regions |-> rs, mem |-> m]
    ELSE LET new_region == cr.region
             linked == [cr.regions EXCEPT ![a.last].next = new_region]
             ra == region_alloc(linked, new_region, size, alignment)
         IN  [ok |-> TRUE, result |-> ra.result,
              arena |-> [a EXCEPT !.last = new_region],
              regions |-> ra.regions, mem |-> cr.mem]

\* Mutant: the new region is sized by the request alone.
new_region_alloc_ignores_capacity(a, rs, m, size, alignment) ==
    LET cr == create_region(m, rs, size) IN
    IF ~cr.ok
    THEN [ok |-> FALSE, result |-> nullptr, arena |-> a, regions |-> rs, mem |-> m]
    ELSE LET new_region == cr.region
             linked == [cr.regions EXCEPT ![a.last].next = new_region]
             ra == region_alloc(linked, new_region, size, alignment)
         IN  [ok |-> TRUE, result |-> ra.result,
              arena |-> [a EXCEPT !.last = new_region],
              regions |-> ra.regions, mem |-> cr.mem]

\* Mutant: arena->last is not moved to the new region.
new_region_alloc_keeps_last(a, rs, m, size, alignment) ==
    LET cr == create_region(m, rs, max(size, a.new_region_capacity)) IN
    IF ~cr.ok
    THEN [ok |-> FALSE, result |-> nullptr, arena |-> a, regions |-> rs, mem |-> m]
    ELSE LET new_region == cr.region
             linked == [cr.regions EXCEPT ![a.last].next = new_region]
             ra == region_alloc(linked, new_region, size, alignment)
         IN  [ok |-> TRUE, result |-> ra.result,
              arena |-> a,
              regions |-> ra.regions, mem |-> cr.mem]

\* Mutant: the region to link after is kept in one static pointer shared by
\* all arenas: the region created last in the process.
LastCreated(rs) == CHOOSE r \in DOMAIN rs : \A q \in DOMAIN rs : q <= r

new_region_alloc_global_last(a, rs, m, size, alignment) ==
    LET cr == create_region(m, rs, max(size, a.new_region_capacity)) IN
    IF ~cr.ok
    THEN [ok |-> FALSE, result |-> nullptr, arena |-> a, regions |-> rs, mem |-> m]
    ELSE LET new_region == cr.region
             linked == [cr.regions EXCEPT ![LastCreated(rs)].next = new_region]
             ra == region_alloc(linked, new_region, size, alignment)
         IN  [ok |-> TRUE, result |-> ra.result,
              arena |-> [a EXCEPT !.last = new_region],
              regions |-> ra.regions, mem |-> cr.mem]

new_region_alloc(a, rs, m, size, alignment) ==
    LET cr == create_region(m, rs, max(size, a.new_region_capacity)) IN
    IF ~cr.ok
    THEN [ok |-> FALSE, result |-> nullptr, arena |-> a, regions |-> rs, mem |-> m]
    ELSE LET new_region == cr.region
             linked == [cr.regions EXCEPT ![a.last].next = new_region]
             ra == region_alloc(linked, new_region, size, alignment)
         IN  [ok |-> TRUE, result |-> ra.result,
              arena |-> [a EXCEPT !.last = new_region],
              regions |-> ra.regions, mem |-> cr.mem]

(***************************************************************************)
(* Public API                                                              *)
(***************************************************************************)
\* Mutant: the first region's capacity is computed with the region header alone.
create_arena_region_header(m, capacity) ==
    LET mem_size == align_to_page(Wrap(capacity + ARENA_HEADER_SIZE))
        am == alloc_mem(m, mem_size)
    IN  IF ~am.ok
        THEN [ok |-> FALSE, arena |-> [ptr |-> nullptr, last |-> nullptr, new_region_capacity |-> 0],
              regions |-> <<>>, mem |-> m]
        ELSE LET a == [ptr |-> am.ptr, last |-> am.ptr + ARENA_FIRST_OFFSET,
                       new_region_capacity |-> capacity]
             IN  [ok |-> TRUE, arena |-> a,
                  regions |-> (first(a) :> [next |-> nullptr, tail |-> 0,
                                            capacity |-> Wrap(mem_size - REGION_HEADER_SIZE)]),
                  mem |-> am.mem]

\* Mutant: new_region_capacity is set to the rounded capacity of the first region.
create_arena_capacity_rounded(m, capacity) ==
    LET mem_size == align_to_page(Wrap(capacity + ARENA_HEADER_SIZE))
        am == alloc_mem(m, mem_size)
    IN  IF ~am.ok
        THEN [ok |-> FALSE, arena |-> [ptr |-> nullptr, last |-> nullptr, new_region_capacity |-> 0],
              regions |-> <<>>, mem |-> m]
        ELSE LET a == [ptr |-> am.ptr, last |-> am.ptr + ARENA_FIRST_OFFSET,
                       new_region_capacity |-> Wrap(mem_size - ARENA_HEADER_SIZE)]
             IN  [ok |-> TRUE, arena |-> a,
                  regions |-> (first(a) :> [next |-> nullptr, tail |-> 0,
                                            capacity |-> Wrap(mem_size - ARENA_HEADER_SIZE)]),
                  mem |-> am.mem]

create_arena(m, capacity) ==
    LET mem_size == align_to_page(Wrap(capacity + ARENA_HEADER_SIZE))
        am == alloc_mem(m, mem_size)
    IN  IF ~am.ok
        THEN [ok |-> FALSE, arena |-> [ptr |-> nullptr, last |-> nullptr, new_region_capacity |-> 0],
              regions |-> <<>>, mem |-> m]
        ELSE LET a == [ptr |-> am.ptr, last |-> am.ptr + ARENA_FIRST_OFFSET,
                       new_region_capacity |-> capacity]
             IN  [ok |-> TRUE, arena |-> a,
                  regions |-> (first(a) :> [next |-> nullptr, tail |-> 0,
                                            capacity |-> Wrap(mem_size - ARENA_HEADER_SIZE)]),
                  mem |-> am.mem]

\* The loop of delete_arena from `region` on: the munmap calls it makes, in
\* order.  The loop reads region->next before free_region(region).
RECURSIVE delete_walk(_, _, _)
delete_walk(u, rs, region) ==
    IF region = nullptr THEN u
    ELSE LET next_region == rs[region].next IN
         delete_walk(free_region(u, region, rs), rs, next_region)

delete_arena(u, a, rs) == free_arena(delete_walk(u, rs, rs[first(a)].next), a, rs)

\* The memory accesses of delete_arena, in program order.  A read or a
\* release names the block it touches: a chained region's block is the
\* region pointer, the embedded first region lies in the arena's block.
MemRead(block) == [kind |-> "read", block |-> block]

MemFree(block) == [kind |-> "free", block |-> block]

\* Mutant: the region is released before its next link is read.
RECURSIVE delete_accesses_walk_free_first(_, _)
delete_accesses_walk_free_first(rs, region) ==
    IF region = nullptr THEN <<>>
    ELSE <<MemRead(region), MemRead(region),
           MemRead(region), MemFree(region),
           MemRead(region)>>
            \o delete_accesses_walk_free_first(rs, rs[region].next)

\* One turn of the loop: the assertion reads tail and capacity, next_region
\* is read, free_region reads capacity and releases the block.
RECURSIVE delete_accesses_walk(_, _)
delete_accesses_walk(rs, region) ==
    IF region = nullptr THEN <<>>
    ELSE <<MemRead(region), MemRead(region),
           MemRead(region),
           MemRead(region), MemFree(region)>>
            \o delete_accesses_walk(rs, rs[region].next)

\* arena->first.next is read, the loop runs, the assertion reads first.tail
\* and first.capacity, free_arena reads first.capacity and releases the block.
delete_accesses(a, rs) ==
    <<MemRead(a.ptr)>>
        \o delete_accesses_walk(rs, rs[first(a)].next)
        \o <<MemRead(a.ptr), MemRead(a.ptr), MemRead(a.ptr), MemFree(a.ptr)>>

set_region_capacity(a, capacity) == [a EXCEPT !.new_region_capacity = capacity]

RECURSIVE fit_scan(_, _, _, _, _, _)
fit_scan(a, rs, m, region, size, alignment) ==
    IF region = nullptr THEN new_region_alloc(a, rs, m, size, alignment)
    ELSE LET ra == region_alloc(rs, region, size, alignment) IN
         IF ra.result # nullptr
         THEN [ok |-> TRUE, result |-> ra.result, arena |-> a, regions |-> ra.regions, mem |-> m]
         ELSE fit_scan(a, ra.regions, m, ra.regions[region].next, size, alignment)

\* Mutant: _arena_alloc scans the chain as _arena_fit does.
_arena_alloc_scans(a, rs, m, size, alignment) == fit_scan(a, rs, m, first(a), size, alignment)

_arena_alloc(a, rs, m, size, alignment) ==
    LET ra == region_alloc(rs, a.last, size, alignment) IN
    IF ra.result # nullptr
    THEN [ok |-> TRUE, result |-> ra.result, arena |-> a, regions |-> ra.regions, mem |-> m]
    ELSE new_region_alloc(a, ra.regions, m, size, alignment)

\* Mutant: the scan starts at first.next, as the loops of delete_arena and
\* arena_print do, and so skips the embedded first region.
_arena_fit_skips_first(a, rs, m, size, alignment) ==
    fit_scan(a, rs, m, rs[first(a)].next, size, alignment)

_arena_fit(a, rs, m, size, alignment) == fit_scan(a, rs, m, first(a), size, alignment)

\* The values arena_print prints from `region` on, in order.
RECURSIVE print_walk(_, _)
print_walk(rs, region) ==
    IF region = nullptr THEN <<>>
    ELSE <<region, rs[region].next, rs[region].tail, rs[region].capacity>>
            \o print_walk(rs, rs[region].next)

\* Mutant: the loop uses arena->last as its cursor, and leaves it null.
arena_print_moves_last(a, rs) ==
    [arena |-> [a EXCEPT !.last = nullptr], regions |-> rs,
     out |-> <<a.ptr, a.last, a.new_region_capacity,
               rs[first(a)].next, rs[first(a)].tail, rs[first(a)].capacity>>
             \o print_walk(rs, rs[first(a)].next)]

\* arena_print only reads: the arena and the heap it leaves, and its output.
arena_print(a, rs) ==
    [arena |-> a, regions |-> rs,
     out |-> <<a.ptr, a.last, a.new_region_capacity,
               rs[first(a)].next, rs[first(a)].tail, rs[first(a)].capacity>>
             \o print_walk(rs, rs[first(a)].next)]

(***************************************************************************)
(* The state machine: one caller using one arena                           *)
(***************************************************************************)
NoArena == [ptr |-> nullptr, last |-> nullptr, new_region_capacity |-> 0]

NoCall == [op |-> "none", size |-> 0, alignment |-> 0, result |-> nullptr]

\* The second arena does not exist and no thread is inside a call.
NoLog == [A |-> <<>>, B |-> <<>>]

PeerIdle == arenaB = NoArena /\ phaseB = "none" /\ oplog = NoLog

RaceIdle == threads = <<>> /\ sched = "none"

Init ==
    /\ phase = "none"
    /\ arena = NoArena
    /\ regions = <<>>
    /\ mem = <<>>
    /\ unmapped = <<>>
    /\ blocks = <<>>
    /\ call = NoCall
    /\ ncalls = 0
    /\ accesses = <<>>
    /\ PeerIdle
    /\ RaceIdle

Created(capacity) ==
    LET r == create_arena(mem, capacity) IN
    /\ phase = "none"
    /\ phase' = IF r.ok THEN "live" ELSE "exited"
    /\ arena' = r.arena
    /\ regions' = r.regions
    /\ mem' = r.mem
    /\ call' = [op |-> "create", size |-> capacity, alignment |-> 0, result |-> r.arena.ptr]
    /\ UNCHANGED <<unmapped, blocks, ncalls, accesses>>
    /\ UNCHANGED <<peerVars, raceVars>>

CreateArena == \E capacity \in Capacities : Created(capacity)

\* The assertions of region_alloc: the requests a caller may make.
ValidRequest(size, alignment) ==
    /\ size > 0
    /\ alignment <= MAX_ALIGN
    /\ is_power_of_two(alignment)

Allocated(op, r, size, alignment) ==
    /\ ValidRequest(size, alignment)
    /\ phase' = IF r.ok THEN "live" ELSE "exited"
    /\ arena' = r.arena
    /\ regions' = r.regions
    /\ mem' = r.mem
    /\ blocks' = IF r.result # nullptr THEN Append(blocks, [ptr |-> r.result, size |-> size]) ELSE blocks
    /\ call' = [op |-> op, size |-> size, alignment |-> alignment, result |-> r.result]
    /\ ncalls' = ncalls + 1
    /\ UNCHANGED <<unmapped, accesses>>
    /\ UNCHANGED <<peerVars, raceVars>>

ArenaAlloc ==
    /\ phase = "live"
    /\ ncalls < MaxCalls
    /\ \E size \in Sizes, alignment \in Alignments :
          Allocated("alloc", _arena_alloc(arena, regions, mem, size, alignment), size, alignment)

ArenaFit ==
    /\ phase = "live"
    /\ ncalls < MaxCalls
    /\ \E size \in Sizes, alignment \in Alignments :
          Allocated("fit", _arena_fit(arena, regions, mem, size, alignment), size, alignment)

SetRegionCapacity ==
    /\ phase = "live"
    /\ ncalls < MaxCalls
    /\ \E capacity \in RegionCapacities :
          /\ arena' = set_region_capacity(arena, capacity)
          /\ call' = [op |-> "set_region_capacity", size |-> capacity, alignment |-> 0, result |-> nullptr]
    /\ ncalls' = ncalls + 1
    /\ UNCHANGED <<phase, regions, mem, unmapped, blocks, accesses>>
    /\ UNCHANGED <<peerVars, raceVars>>

ArenaPrint ==
    /\ phase = "live"
    /\ ncalls < MaxCalls
    /\ LET r == arena_print(arena, regions) IN
          /\ arena' = r.arena
          /\ regions' = r.regions
    /\ call' = [op |-> "print", size |-> 0, alignment |-> 0, result |-> nullptr]
    /\ ncalls' = ncalls + 1
    /\ UNCHANGED <<phase, mem, unmapped, blocks, accesses>>
    /\ UNCHANGED <<peerVars, raceVars>>

DeleteArena ==
    /\ phase = "live"
    /\ phase' = "deleted"
    /\ unmapped' = delete_arena(unmapped, arena, regions)
    /\ accesses' = delete_accesses(arena, regions)
    /\ call' = [op |-> "delete", size |-> 0, alignment |-> 0, result |-> nullptr]
    /\ UNCHANGED <<arena, regions, mem, blocks, ncalls>>
    /\ UNCHANGED <<peerVars, raceVars>>

Next == CreateArena \/ ArenaAlloc \/ ArenaFit \/ SetRegionCapacity \/ ArenaPrint \/ DeleteArena

Spec == Init /\ [][Next]_vars

\* create_arena alone, over every capacity up to MaxCapacity.
CreateAnyArena == \E capacity \in 0..MaxCapacity : Created(capacity)

NextCreate == CreateAnyArena

SpecCreate == Init /\ [][NextCreate]_vars

\* region_alloc alone, on the first region of a fresh one-page arena whose
\* tail is anywhere in 0..capacity, for every size up to MaxRequest.
InitRegion ==
    LET r == create_arena(<<>>, 0) IN
    /\ phase = "live"
    /\ arena = r.arena
    /\ \E tail \in 0..r.regions[first(r.arena)].capacity :
          regions = [r.regions EXCEPT ![first(r.arena)].tail = tail]
    /\ mem = r.mem
    /\ unmapped = <<>>
    /\ blocks = <<>>
    /\ call = NoCall
    /\ ncalls = 0
    /\ accesses = <<>>
    /\ PeerIdle
    /\ RaceIdle

RegionAlloc ==
    /\ phase = "live"
    /\ ncalls < MaxRegionCalls
    /\ \E size \in 1..MaxRequest, alignment \in Alignments :
          LET ra == region_alloc(regions, first(arena), size, alignment) IN
          /\ ValidRequest(size, alignment)
          /\ regions' = ra.regions
          /\ call' = [op |-> "region_alloc", size |-> size, alignment |-> alignment,
                      result |-> ra.result]
    /\ ncalls' = ncalls + 1
    /\ UNCHANGED <<phase, arena, mem, unmapped, blocks, accesses>>
    /\ UNCHANGED <<peerVars, raceVars>>

NextRegion == RegionAlloc

SpecRegion == InitRegion /\ [][NextRegion]_vars

\* One _arena_alloc/_arena_fit call with a size anywhere in the range of
\* size_t, on a fresh one-page arena whose new_region_capacity has been set
\* (create_arena(0), then set_region_capacity) anywhere in that range.
InitWide ==
    LET r == create_arena(<<>>, 0) IN
    /\ phase = "live"
    /\ \E capacity \in WideSizes \cup {0} : arena = set_region_capacity(r.arena, capacity)
    /\ regions = r.regions
    /\ mem = r.mem
    /\ unmapped = <<>>
    /\ blocks = <<>>
    /\ call = NoCall
    /\ ncalls = 0
    /\ accesses = <<>>
    /\ PeerIdle
    /\ RaceIdle

WideAlloc ==
    /\ phase = "live"
    /\ ncalls = 0
    /\ \E size \in WideSizes, alignment \in WideAlignments :
          Allocated("alloc", _arena_alloc(arena, regions, mem, size, alignment), size, alignment)

WideFit ==
    /\ phase = "live"
    /\ ncalls = 0
    /\ \E size \in WideSizes, alignment \in WideAlignments :
          Allocated("fit", _arena_fit(arena, regions, mem, size, alignment), size, alignment)

NextWide == WideAlloc \/ WideFit

SpecWide == InitWide /\ [][NextWide]_vars

(***************************************************************************)
(* Two arenas in one process, each used by its own thread.  The heap and   *)
(* the memory provider are shared; a call touches the memory of its own    *)
(* arena and the provider only, so calls are taken one at a time.          *)
(***************************************************************************)
Names == {"A", "B"}

Other(x) == IF x = "A" THEN "B" ELSE "A"

ArenaOf(x) == IF x = "A" THEN arena ELSE arenaB

PhaseOf(x) == IF x = "A" THEN phase ELSE phaseB

SetArena(x, a, ph) ==
    IF x = "A"
    THEN arena' = a /\ phase' = ph /\ UNCHANGED <<arenaB, phaseB>>
    ELSE arenaB' = a /\ phaseB' = ph /\ UNCHANGED <<arena, phase>>

Logged(x, c) ==
    /\ oplog' = [oplog EXCEPT ![x] = Append(@, c)]
    /\ call' = c

InitTwo ==
    /\ phase = "none"
    /\ arena = NoArena
    /\ regions = <<>>
    /\ mem = <<>>
    /\ unmapped = <<>>
    /\ blocks = <<>>
    /\ call = NoCall
    /\ ncalls = 0
    /\ accesses = <<>>
    /\ PeerIdle
    /\ RaceIdle

TwoCreated(x) ==
    LET r == create_arena(mem, 0) IN
    /\ PhaseOf(x) = "none"
    /\ SetArena(x, r.arena, IF r.ok THEN "live" ELSE "exited")
    /\ regions' = r.regions @@ regions
    /\ mem' = r.mem
    /\ Logged(x, [op |-> "create", size |-> 0, alignment |-> 0, result |-> r.arena.ptr])
    /\ UNCHANGED <<unmapped, blocks, ncalls, accesses, raceVars>>

TwoAllocated(x, op, r, size, alignment) ==
    /\ ValidRequest(size, alignment)
    /\ SetArena(x, r.arena, IF r.ok THEN "live" ELSE "exited")
    /\ regions' = r.regions
    /\ mem' = r.mem
    /\ Logged(x, [op |-> op, size |-> size, alignment |-> alignment, result |-> r.result])
    /\ ncalls' = ncalls + 1
    /\ UNCHANGED <<unmapped, blocks, accesses, raceVars>>

TwoCreate == \E x \in Names : TwoCreated(x)

TwoAlloc ==
    \E x \in Names, size \in TwoSizes, alignment \in TwoAlignments :
        /\ PhaseOf(x) = "live"
        /\ ncalls < MaxTwoCalls
        /\ TwoAllocated(x, "alloc", _arena_alloc(ArenaOf(x), regions, mem, size, alignment),
                        size, alignment)

TwoFit ==
    \E x \in Names, size \in TwoSizes, alignment \in TwoAlignments :
        /\ PhaseOf(x) = "live"
        /\ ncalls < MaxTwoCalls
        /\ TwoAllocated(x, "fit", _arena_fit(ArenaOf(x), regions, mem, size, alignment),
                        size, alignment)

TwoSetRegionCapacity ==
    \E x \in Names, capacity \in TwoRegionCapacities :
        /\ PhaseOf(x) = "live"
        /\ ncalls < MaxTwoCalls
        /\ SetArena(x, set_region_capacity(ArenaOf(x), capacity), "live")
        /\ Logged(x, [op |-> "set_region_capacity", size |-> capacity, alignment |-> 0,
                      result |-> nullptr])
        /\ ncalls' = ncalls + 1
        /\ UNCHANGED <<regions, mem, unmapped, blocks, accesses, raceVars>>

TwoDelete ==
    \E x \in Names :
        /\ PhaseOf(x) = "live"
        /\ SetArena(x, ArenaOf(x), "deleted")
        /\ unmapped' = delete_arena(unmapped, ArenaOf(x), regions)
        /\ Logged(x, [op |-> "delete", size |-> 0, alignment |-> 0, result |-> nullptr])
        /\ UNCHANGED <<regions, mem, blocks, ncalls, accesses, raceVars>>

NextTwo == TwoCreate \/ TwoAlloc \/ TwoFit \/ TwoSetRegionCapacity \/ TwoDelete

SpecTwo == InitTwo /\ [][NextTwo]_vars

\* The same calls made on an arena that is alone in the process.
AloneStart ==
    [phase |-> "none", arena |-> NoArena, regions |-> <<>>, mem |-> <<>>, unmapped |-> <<>>]

AloneStep(s, c) ==
    CASE c.op = "create" ->
            LET r == create_arena(s.mem, c.size) IN
            [s EXCEPT !.phase = "live", !.arena = r.arena, !.regions = r.regions, !.mem = r.mem]
      [] c.op = "alloc" ->
            LET r == _arena_alloc(s.arena, s.regions, s.mem, c.size, c.alignment) IN
            [s EXCEPT !.arena = r.arena, !.regions = r.regions, !.mem = r.mem]
      [] c.op = "fit" ->
            LET r == _arena_fit(s.arena, s.regions, s.mem, c.size, c.alignment) IN
            [s EXCEPT !.arena = r.arena, !.regions = r.regions, !.mem = r.mem]
      [] c.op = "set_region_capacity" ->
            [s EXCEPT !.arena = set_region_capacity(s.arena, c.size)]
      [] c.op = "delete" ->
            [s EXCEPT !.phase = "deleted",
                      !.unmapped = delete_arena(s.unmapped, s.arena, s.regions)]

RECURSIVE Alone(_, _)
Alone(log, n) == IF n = 0 THEN AloneStart ELSE AloneStep(Alone(log, n - 1), log[n])

\* The result of the n-th call of `log` when the arena is alone.
AloneResult(log, n) ==
    LET s == Alone(log, n - 1)
        c == log[n]
    IN  CASE c.op = "alloc" -> _arena_alloc(s.arena, s.regions, s.mem, c.size, c.alignment).result
          [] c.op = "fit" -> _arena_fit(s.arena, s.regions, s.mem, c.size, c.alignment).result
          [] OTHER -> nullptr

(***************************************************************************)
(* Two threads inside _arena_alloc/_arena_fit on the same arena.  A call   *)
(* is taken one memory access at a time: region_alloc reads tail and       *)
(* stores it later, the loop of _arena_fit reads next, new_region_alloc    *)
(* reads last, stores next, stores last.  In mode "serialised" the caller  *)
(* holds a lock for the length of a call; in mode "racy" it does not.      *)
(***************************************************************************)
IdleThread ==
    [pc |-> "idle", op |-> "none", size |-> 0, alignment |-> 0,
     region |-> nullptr, start |-> 0, new_region |-> nullptr, last |-> nullptr]

\* Lines 119-127 of region_alloc: the aligned start, and whether it fits.
region_alloc_start(rs, region, size, alignment) ==
    LET start == align(rs[region].tail, alignment) IN
    IF start >= rs[region].capacity
    THEN [fits |-> FALSE, start |-> start]
    ELSE LET bytes_available == rs[region].capacity - start IN
         [fits |-> size <= bytes_available, start |-> start]

\* Mutant: the tail is not advanced.
region_alloc_store_keeps_tail(rs, region, start, size) == rs

\* Lines 129-130 of region_alloc: the store of the new tail.
region_alloc_store(rs, region, start, size) ==
    [rs EXCEPT ![region].tail = Wrap(start + size)]

InitRace ==
    LET r == create_arena(<<>>, 0) IN
    /\ phase = "live"
    /\ arena = r.arena
    /\ regions = r.regions
    /\ mem = r.mem
    /\ unmapped = <<>>
    /\ blocks = <<>>
    /\ call = NoCall
    /\ ncalls = 0
    /\ accesses = <<>>
    /\ PeerIdle
    /\ threads = [t \in Tids |-> IdleThread]
    /\ \E mode \in {"serialised", "racy"} : sched = [mode |-> mode, owner |-> 0]

Returned(t, result) ==
    /\ blocks' = IF result # nullptr
                 THEN Append(blocks, [ptr |-> result, size |-> threads[t].size])
                 ELSE blocks
    /\ call' = [op |-> threads[t].op, size |-> threads[t].size,
                alignment |-> threads[t].alignment, result |-> result]
    /\ threads' = [threads EXCEPT ![t] = IdleThread]
    /\ sched' = [sched EXCEPT !.owner = 0]

\* The call is entered; _arena_alloc reads arena->last, _arena_fit starts
\* at &arena->first.
RaceBegin(t) ==
    /\ phase = "live"
    /\ threads[t].pc = "idle"
    /\ ncalls < MaxRaceCalls
    /\ sched.mode = "racy" \/ sched.owner = 0
    /\ \E op \in {"alloc", "fit"}, size \in RaceSizes, alignment \in RaceAlignments :
          /\ ValidRequest(size, alignment)
          /\ threads' = [threads EXCEPT ![t] =
                            [IdleThread EXCEPT !.pc = "decide", !.op = op, !.size = size,
                                               !.alignment = alignment,
                                               !.region = IF op = "alloc" THEN arena.last
                                                          ELSE first(arena)]]
    /\ sched' = [sched EXCEPT !.owner = IF sched.mode = "serialised" THEN t ELSE 0]
    /\ ncalls' = ncalls + 1
    /\ UNCHANGED <<phase, arena, regions, mem, unmapped, blocks, call, accesses, peerVars>>

\* region_alloc reads tail and capacity and decides.
RaceDecide(t) ==
    LET th == threads[t]
        ra == region_alloc_start(regions, th.region, th.size, th.alignment)
    IN  /\ phase = "live"
        /\ th.pc = "decide"
        /\ IF ra.fits
           THEN /\ threads' = [threads EXCEPT ![t].pc = "store", ![t].start = ra.start]
                /\ UNCHANGED <<blocks, call, sched>>
           ELSE IF th.region = th.new_region
           THEN Returned(t, nullptr)
           ELSE /\ threads' = [threads EXCEPT ![t].pc = IF th.op = "alloc" THEN "create"
                                                        ELSE "next"]
                /\ UNCHANGED <<blocks, call, sched>>
        /\ UNCHANGED <<phase, arena, regions, mem, unmapped, ncalls, accesses, peerVars>>

\* region_alloc stores the new tail and returns the block.
RaceStore(t) ==
    LET th == threads[t] IN
    /\ phase = "live"
    /\ th.pc = "store"
    /\ regions' = region_alloc_store(regions, th.region, th.start, th.size)
    /\ Returned(t, data(th.region, th.start))
    /\ UNCHANGED <<phase, arena, mem, unmapped, ncalls, accesses, peerVars>>

\* The loop of _arena_fit reads region->next.
RaceNext(t) ==
    LET th == threads[t]
        next == regions[th.region].next
    IN  /\ phase = "live"
        /\ th.pc = "next"
        /\ threads' = [threads EXCEPT ![t].pc = IF next = nullptr THEN "create" ELSE "decide",
                                      ![t].region = IF next = nullptr THEN th.region ELSE next]
        /\ UNCHANGED <<phase, arena, regions, mem, unmapped, blocks, call, ncalls,
                       accesses, peerVars, sched>>

\* new_region_alloc creates the region; nothing points to it yet.
RaceCreate(t) ==
    LET th == threads[t]
        cr == create_region(mem, regions, max(th.size, arena.new_region_capacity))
    IN  /\ phase = "live"
        /\ th.pc = "create"
        /\ phase' = IF cr.ok THEN "live" ELSE "exited"
        /\ regions' = cr.regions
        /\ mem' = cr.mem
        /\ threads' = [threads EXCEPT ![t].pc = "read_last", ![t].new_region = cr.region]
        /\ UNCHANGED <<arena, unmapped, blocks, call, ncalls, accesses, peerVars, sched>>

\* arena->last->next = new_region: the read of arena->last ...
RaceReadLast(t) ==
    /\ phase = "live"
    /\ threads[t].pc = "read_last"
    /\ threads' = [threads EXCEPT ![t].pc = "write_next", ![t].last = arena.last]
    /\ UNCHANGED <<phase, arena, regions, mem, unmapped, blocks, call, ncalls,
                   accesses, peerVars, sched>>

\* ... and the store of next.
RaceWriteNext(t) ==
    LET th == threads[t] IN
    /\ phase = "live"
    /\ th.pc = "write_next"
    /\ regions' = [regions EXCEPT ![th.last].next = th.new_region]
    /\ threads' = [threads EXCEPT ![t].pc = "write_last"]
    /\ UNCHANGED <<phase, arena, mem, unmapped, blocks, call, ncalls, accesses,
                   peerVars, sched>>

\* arena->last = new_region, then region_alloc on the new region.
RaceWriteLast(t) ==
    LET th == threads[t] IN
    /\ phase = "live"
    /\ th.pc = "write_last"
    /\ arena' = [arena EXCEPT !.last = th.new_region]
    /\ threads' = [threads EXCEPT ![t].pc = "decide", ![t].region = th.new_region]
    /\ UNCHANGED <<phase, regions, mem, unmapped, blocks, call, ncalls, accesses,
                   peerVars, sched>>

ThreadBegins == \E t \in Tids : RaceBegin(t)

ThreadDecides == \E t \in Tids : RaceDecide(t)

ThreadStores == \E t \in Tids : RaceStore(t)

ThreadReadsNext == \E t \in Tids : RaceNext(t)

ThreadCreates == \E t \in Tids : RaceCreate(t)

ThreadReadsLast == \E t \in Tids : RaceReadLast(t)

ThreadWritesNext == \E t \in Tids : RaceWriteNext(t)

ThreadWritesLast == \E t \in Tids : RaceWriteLast(t)

NextRace ==
    \/ ThreadBegins \/ ThreadDecides \/ ThreadStores \/ ThreadReadsNext
    \/ ThreadCreates \/ ThreadReadsLast \/ ThreadWritesNext \/ ThreadWritesLast

SpecRace == InitRace /\ [][NextRace]_vars

(***************************************************************************)
(* Reference notions used to state the properties                          *)
(***************************************************************************)
\* The smallest multiple of `alignment` that is >= n.
RoundUp(n, alignment) == CHOOSE k \in n..(n + alignment - 1) : k % alignment = 0

\* The reference rule of Region.allocate: the request fits behind the
\* aligned tail.
CanServe(rs, region, size, alignment) ==
    RoundUp(rs[region].tail, alignment) + size <= rs[region].capacity

\* The regions met from `region` on along next links, at most `fuel` of them.
RECURSIVE ChainWalk(_, _, _)
ChainWalk(rs, region, fuel) ==
    IF region = nullptr \/ fuel = 0 \/ region \notin DOMAIN rs THEN <<>>
    ELSE <<region>> \o ChainWalk(rs, rs[region].next, fuel - 1)

Chain == ChainWalk(regions, first(arena), Cardinality(DOMAIN regions))

ChainOf(a, rs) == ChainWalk(rs, first(a), Cardinality(DOMAIN rs))

InPayload(rs, region, b) ==
    /\ data(region, 0) <= b.ptr
    /\ b.ptr + b.size <= data(region, 0) + rs[region].capacity

IsAllocCall(c) == c.op \in {"alloc", "fit"}

\* The last call was an alloc/fit that created the region that is now last.
Grew ==
    /\ phase = "live"
    /\ IsAllocCall(call)
    /\ arena.last # first(arena)
    /\ call.result = data(arena.last, 0)

(***************************************************************************)
(* Properties                                                              *)
(***************************************************************************)

\* C1: every pointer returned by _arena_alloc/_arena_fit for a valid request
\* is an address that is a multiple of the requested alignment, in the
\* embedded first region and in later regions alike.
C1_ReturnedPointerAligned ==
    (phase = "live" /\ IsAllocCall(call) /\ call.result # nullptr)
        => call.result % call.alignment = 0

\* C2: the blocks returned so far are pairwise disjoint byte ranges, and each
\* lies inside the payload of exactly one region of the chain.
C2_BlocksDisjointInsidePayload ==
    phase = "live" =>
        /\ \A i \in 1..Len(blocks) :
              Cardinality({j \in 1..Len(Chain) : InPayload(regions, Chain[j], blocks[i])}) = 1
        /\ \A i, j \in 1..Len(blocks) :
              i # j => \/ blocks[i].ptr + blocks[i].size <= blocks[j].ptr
                       \/ blocks[j].ptr + blocks[j].size <= blocks[i].ptr

\* Three blocks have been returned, from more than one region, and two of
\* them share a region.
C2_Witness ==
    /\ phase = "live"
    /\ Len(blocks) = 3
    /\ Len(Chain) >= 2
    /\ \E r \in DOMAIN regions : \E i, j \in 1..Len(blocks) :
          i # j /\ InPayload(regions, r, blocks[i]) /\ InPayload(regions, r, blocks[j])
    /\ \E r \in DOMAIN regions : \E i \in 1..Len(blocks) :
          InPayload(regions, r, blocks[i]) /\ ~InPayload(regions, r, blocks[1])

\* C3: between create_arena and delete_arena every region, the embedded first
\* one included, has 0 <= tail <= capacity (the assertions of delete_arena).
C3_TailWithinCapacity ==
    phase = "live" => \A r \in DOMAIN regions :
        0 <= regions[r].tail /\ regions[r].tail <= regions[r].capacity

\* A chained region is filled to its capacity, the first region is partly
\* used, and new_region_capacity has been set.
C3_Witness ==
    /\ phase = "live"
    /\ call.op = "set_region_capacity"
    /\ regions[first(arena)].tail > 0
    /\ \E r \in DOMAIN regions : r # first(arena) /\ regions[r].tail = regions[r].capacity

\* C10: in a live arena the chain from the embedded first region along next
\* links is finite and acyclic, visits each region once, and arena.last is
\* its final element, the only region whose next is null.
C10_ChainWellFormed ==
    phase = "live" =>
        /\ Len(Chain) >= 1
        /\ Chain[1] = first(arena)
        /\ \A i, j \in 1..Len(Chain) : i # j => Chain[i] # Chain[j]
        /\ regions[Chain[Len(Chain)]].next = nullptr
        /\ arena.last = Chain[Len(Chain)]
        /\ \A i \in 1..Len(Chain) : regions[Chain[i]].next = nullptr => Chain[i] = arena.last
        /\ \A i \in 1..Len(Chain) : regions[Chain[i]].next \in DOMAIN regions \cup {nullptr}

\* The chain has three regions, the last one created by _arena_fit after an
\* earlier one was created by _arena_alloc or _arena_fit.
C10_Witness ==
    /\ Grew
    /\ call.op = "fit"
    /\ Len(Chain) = 3

\* The step is a call of _arena_alloc / _arena_fit on a live arena.
AllocStep == phase = "live" /\ call'.op = "alloc" /\ ncalls' = ncalls + 1

FitStep == phase = "live" /\ call'.op = "fit" /\ ncalls' = ncalls + 1

\* The step created exactly one region `new`, appended it after the old last
\* region, and returned the block at its offset 0.
GrowthStep(new) ==
    /\ new \notin DOMAIN regions
    /\ DOMAIN regions' = DOMAIN regions \cup {new}
    /\ Len(mem') = Len(mem) + 1
    /\ regions'[new].capacity >= max(call'.size, arena.new_region_capacity)
    /\ regions'[arena.last].next = new
    /\ regions'[new].next = nullptr
    /\ arena'.last = new
    /\ call'.result = data(new, 0)
    /\ regions'[new].tail = call'.size

\* The step served the request from the existing region `r` and created
\* nothing.
ServedStep(r) ==
    /\ DOMAIN regions' = DOMAIN regions
    /\ mem' = mem
    /\ arena' = arena
    /\ call'.result = data(r, RoundUp(regions[r].tail, call'.alignment))
    /\ regions'[r].tail = RoundUp(regions[r].tail, call'.alignment) + call'.size

C5_FitIsFirstFit ==
    [][FitStep =>
          LET fitting == {i \in 1..Len(Chain) :
                              CanServe(regions, Chain[i], call'.size, call'.alignment)}
          IN  IF fitting # {}
              THEN ServedStep(Chain[CHOOSE i \in fitting : \A j \in fitting : i <= j])
              ELSE \E new \in DOMAIN regions' : GrowthStep(new)]_vars

\* Two regions; _arena_fit has returned a block of the second one because the
\* first had too little room, and no third region exists.
C5_Witness ==
    /\ phase = "live"
    /\ call.op = "fit"
    /\ Len(Chain) = 2
    /\ call.result > data(arena.last, 0)
    /\ regions[first(arena)].capacity - regions[first(arena)].tail < call.size
    /\ regions[first(arena)].capacity - regions[first(arena)].tail > 0

\* C6: _arena_alloc leaves every region other than the one that is last at
\* the start of the call unchanged, and creates a region when last lacks
\* room whatever room earlier regions have.
C6_AllocTouchesOnlyLast ==
    [][AllocStep =>
          /\ \A r \in DOMAIN regions : r # arena.last => regions'[r] = regions[r]
          /\ regions'[arena.last].capacity = regions[arena.last].capacity
          /\ ~CanServe(regions, arena.last, call'.size, call'.alignment)
                => /\ regions'[arena.last].tail = regions[arena.last].tail
                   /\ Cardinality(DOMAIN regions') = Cardinality(DOMAIN regions) + 1]_vars

\* _arena_alloc has created a region although a region before the old last
\* one can hold the request.
C6_Witness ==
    /\ Grew
    /\ call.op = "alloc"
    /\ \E r \in DOMAIN regions :
          /\ r # arena.last
          /\ regions[r].next # arena.last
          /\ CanServe(regions, r, call.size, call.alignment)

C8_DeleteReleasesEachBlockOnce ==
    phase = "deleted" =>
        /\ Len(unmapped) = Len(mem)
        /\ \A i \in 1..Len(mem) :
              /\ Cardinality({j \in 1..Len(unmapped) : unmapped[j].addr = mem[i].addr}) = 1
              /\ \A j \in 1..Len(unmapped) :
                    unmapped[j].addr = mem[i].addr => unmapped[j].size = mem[i].size
        /\ \A j \in 1..Len(unmapped) : \E i \in 1..Len(mem) : unmapped[j].addr = mem[i].addr

\* An arena with three chained regions has been deleted.
C8_Witness ==
    /\ phase = "deleted"
    /\ Len(mem) = 4
    /\ Len(unmapped) = 4

LiveStep == phase = "live" /\ phase' = "live"

\* C11: between create_arena and delete_arena no step removes a region,
\* changes a capacity or decreases a tail; at most one region is added per
\* step; every block returned so far stays inside [0, tail) of a region.
C11_RegionsOnlyGrow ==
    [][LiveStep =>
          /\ DOMAIN regions \subseteq DOMAIN regions'
          /\ Cardinality(DOMAIN regions') <= Cardinality(DOMAIN regions) + 1
          /\ \A r \in DOMAIN regions :
                /\ regions'[r].capacity = regions[r].capacity
                /\ regions'[r].tail >= regions[r].tail
          /\ \A i \in 1..Len(blocks) : blocks'[i] = blocks[i]
          /\ \A i \in 1..Len(blocks') : \E r \in DOMAIN regions' :
                /\ data(r, 0) <= blocks'[i].ptr
                /\ blocks'[i].ptr + blocks'[i].size <= data(r, regions'[r].tail)]_vars

\* Two regions and three blocks: two from the first region, whose tail has
\* been advanced twice, and one from the later region.
C11_Witness ==
    /\ phase = "live"
    /\ Len(blocks) = 3
    /\ Len(Chain) = 2
    /\ call.op = "fit"
    /\ Cardinality({i \in 1..3 : InPayload(regions, first(arena), blocks[i])}) = 2

\* C13: arena_print changes nothing of the allocator state.
C13_PrintChangesNothing ==
    [][(phase = "live" /\ call'.op = "print" /\ ncalls' = ncalls + 1) =>
          /\ arena' = arena
          /\ regions' = regions
          /\ mem' = mem
          /\ unmapped' = unmapped
          /\ phase' = phase]_vars

\* arena_print has run on an arena with a chained region.
C13_Witness ==
    /\ phase = "live"
    /\ call.op = "print"
    /\ Len(Chain) = 3
    /\ regions[arena.last].tail > 0

\* C15: a region that cannot hold the request keeps its tail through an
\* _arena_alloc/_arena_fit call (no alignment padding is left behind), and a
\* successful call changes the tail of exactly one region.
C15_FailedAllocLeavesRegion ==
    [][(AllocStep \/ FitStep) =>
          /\ \A r \in DOMAIN regions :
                ~CanServe(regions, r, call'.size, call'.alignment)
                    => regions'[r] = [regions[r] EXCEPT !.next = regions'[r].next]
          /\ call'.result # nullptr =>
                Cardinality({r \in DOMAIN regions' :
                                \/ r \notin DOMAIN regions
                                \/ regions'[r].tail # regions[r].tail}) = 1]_vars

\* _arena_fit has rejected two regions, one of them with a tail that is not
\* a multiple of the alignment, and created a third.
C15_Witness ==
    /\ Grew
    /\ call.op = "fit"
    /\ Len(Chain) = 3
    /\ \E r \in DOMAIN regions :
          /\ r # arena.last
          /\ regions[r].tail % call.alignment # 0
          /\ regions[r].tail < regions[r].capacity

C18_NewRegionCapacityFrame ==
    [][/\ (phase = "none" /\ phase' = "live")
            => arena'.new_region_capacity = call'.size
       /\ (LiveStep /\ call'.op \in {"alloc", "fit", "print"} /\ ncalls' = ncalls + 1)
            => arena'.new_region_capacity = arena.new_region_capacity
       /\ (LiveStep /\ arena'.new_region_capacity # arena.new_region_capacity)
            => call'.op = "set_region_capacity"
       /\ (LiveStep /\ Len(mem') # Len(mem))
            => mem'[Len(mem')].size =
                  RoundUp(max(call'.size, arena.new_region_capacity) + REGION_HEADER_SIZE,
                          page_size)]_vars

\* An arena created with capacity 25 and never reconfigured has grown for a
\* request of 20 bytes: the new region is the one-page region max(20, 25)
\* asks for.
C18_Witness ==
    /\ Grew
    /\ arena.new_region_capacity = 25
    /\ call.size = 20
    /\ regions[arena.last].capacity = page_size - REGION_HEADER_SIZE

\* C14: region_alloc follows the reference rule: with start the tail rounded
\* up to the alignment, it fails (and changes nothing) iff start >= capacity
\* or size > capacity - start, and otherwise returns offset start and sets
\* tail = start + size; a request of exactly capacity - start succeeds and
\* leaves tail = capacity, and a region with tail = capacity rejects every
\* request.
C14_RegionAllocRule ==
    [][(call'.op = "region_alloc" /\ ncalls' = ncalls + 1) =>
          LET r == first(arena)
              start == RoundUp(regions[r].tail, call'.alignment)
              fails == \/ start >= regions[r].capacity
                       \/ call'.size > regions[r].capacity - start
          IN  /\ IF fails
                 THEN call'.result = nullptr /\ regions' = regions
                 ELSE /\ call'.result = data(r, start)
                      /\ regions' = [regions EXCEPT ![r].tail = start + call'.size]
              /\ (start < regions[r].capacity /\ call'.size = regions[r].capacity - start)
                    => regions'[r].tail = regions[r].capacity /\ call'.result # nullptr
              /\ regions[r].tail = regions[r].capacity => call'.result = nullptr]_vars

\* The second of two calls asked, at alignment 16, for exactly the bytes
\* left behind offset 16, was served and has filled the region.
C14_Witness ==
    /\ call.op = "region_alloc"
    /\ call.result # nullptr
    /\ call.alignment = 16
    /\ call.result = data(first(arena), 16)
    /\ call.size = regions[first(arena)].capacity - 16
    /\ regions[first(arena)].tail = regions[first(arena)].capacity
    /\ ncalls = 2

\* C16: for every size in the range of size_t and every
\* new_region_capacity, a growth step creates a region of capacity >= size
\* and returns a non-null block from it.
C16_GrowthSatisfiesEverySize ==
    (phase = "live" /\ IsAllocCall(call)) =>
        /\ call.result # nullptr
        /\ arena.last # first(arena) => regions[arena.last].capacity >= call.size

Frees == SelectSeq(accesses, LAMBDA e : e.kind = "free")

\* C20: delete_arena never touches a block after releasing it; it starts by
\* reading first.next, reads each chained region before releasing it,
\* releases the chained regions in chain order and the arena's block last.
C20_DeleteNeverUsesFreedBlock ==
    phase = "deleted" =>
        /\ \A i, j \in 1..Len(accesses) :
              (i < j /\ accesses[i].kind = "free") => accesses[j].block # accesses[i].block
        /\ accesses[1] = MemRead(arena.ptr)
        /\ accesses[Len(accesses)] = MemFree(arena.ptr)
        /\ Len(Frees) = Len(Chain)
        /\ \A k \in 1..(Len(Chain) - 1) : Frees[k].block = Chain[k + 1]
        /\ Frees[Len(Frees)].block = arena.ptr
        /\ \A k \in 1..Len(Frees) : Frees[k].block = unmapped[k].addr
        /\ \A j \in 1..Len(accesses) :
              accesses[j].kind = "free" =>
                  \E i \in 1..(j - 1) : accesses[i] = MemRead(accesses[j].block)

\* delete_arena has walked and released a chain of two chained regions.
C20_Witness ==
    /\ phase = "deleted"
    /\ Len(Chain) = 3
    /\ Len(Frees) = 3
    /\ accesses[Len(accesses)].kind = "free"

\* What an arena looks like apart from the addresses the provider chose:
\* new_region_capacity, tail and capacity along the chain, the place of last.
Shape(a, rs) ==
    LET c == ChainOf(a, rs) IN
    [new_region_capacity |-> a.new_region_capacity,
     chain |-> [i \in 1..Len(c) |-> [tail |-> rs[c[i]].tail, capacity |-> rs[c[i]].capacity]],
     last |-> {i \in 1..Len(c) : c[i] = a.last}]

\* A returned pointer as (place of its region in the chain, offset).
Place(ptr, a, rs) ==
    LET c == ChainOf(a, rs)
        in == {i \in 1..Len(c) : data(c[i], 0) <= ptr /\ ptr < data(c[i], rs[c[i]].capacity)}
    IN  IF ptr = nullptr \/ in = {} THEN <<0, ptr>>
        ELSE LET i == CHOOSE i \in in : TRUE IN <<i, ptr - data(c[i], 0)>>

SameAsAlone(x) ==
    LET log == oplog[x]
        s == Alone(log, Len(log))
    IN  /\ s.phase = PhaseOf(x)
        /\ PhaseOf(x) = "live" =>
              /\ Shape(ArenaOf(x), regions) = Shape(s.arena, s.regions)
              /\ \A n \in 1..Len(log) :
                    log[n].op \in {"alloc", "fit"} =>
                        Place(log[n].result, ArenaOf(x), regions)
                            = Place(AloneResult(log, n), s.arena, s.regions)

\* C12: a call on one arena leaves the other arena (last,
\* new_region_capacity and every region of its chain) unchanged, and under
\* every interleaving each arena is in the state, and has returned the
\* blocks, that its own calls produce on an arena that is alone.
C12_ArenasIndependent ==
    /\ [](\A x \in Names : SameAsAlone(x))
    /\ [][\A x \in Names :
             oplog'[x] # oplog[x] =>
                /\ IF x = "A" THEN arenaB' = arenaB /\ phaseB' = phaseB
                              ELSE arena' = arena /\ phase' = phase
                /\ oplog'[Other(x)] = oplog[Other(x)]
                /\ PhaseOf(Other(x)) = "live" =>
                      LET c == ChainOf(ArenaOf(Other(x)), regions) IN
                      \A i \in 1..Len(c) : regions'[c[i]] = regions[c[i]]]_vars

\* Both arenas are live and have grown, their regions mapped in turn:
\* first of A, first of B, second of A, second of B.
C12_Witness ==
    /\ phase = "live"
    /\ phaseB = "live"
    /\ Len(ChainOf(arena, regions)) = 2
    /\ Len(ChainOf(arenaB, regions)) = 2
    /\ first(arena) < first(arenaB)
    /\ first(arenaB) < arena.last
    /\ arena.last < arenaB.last

\* Two of the blocks returned so far share a byte.
BlocksOverlap ==
    \E i, j \in 1..Len(blocks) :
        /\ i # j
        /\ blocks[i].ptr < blocks[j].ptr + blocks[j].size
        /\ blocks[j].ptr < blocks[i].ptr + blocks[i].size

\* A region that new_region_alloc has linked, or was about to link, is not
\* reachable from first: regions still private to a thread that has not yet
\* stored next do not count.
LostRegions ==
    {r \in DOMAIN regions :
        /\ \A i \in 1..Len(Chain) : Chain[i] # r
        /\ \A t \in Tids :
              ~(threads[t].pc \in {"read_last", "write_next"} /\ threads[t].new_region = r)}

\* C19: when the caller serialises the calls of the two threads on the one
\* arena, no two returned blocks overlap, no region is lost from the chain,
\* and between calls last is the end of the chain.  (Without the lock the
\* same steps reach overlapping blocks: C19_Witness.)
C19_SerialisedCallsAreSafe ==
    (threads # <<>> /\ sched.mode = "serialised") =>
        /\ ~BlocksOverlap
        /\ LostRegions = {}
        /\ sched.owner = 0 => arena.last = Chain[Len(Chain)]

\* Without a lock both threads read the same tail and are given the same
\* block.
C19_Witness ==
    /\ threads # <<>>
    /\ sched.mode = "racy"
    /\ BlocksOverlap

\* Without a lock both threads store next of the same region and one new
\* region, with a returned block in it, is lost from the chain.
C19_LostRegion ==
    /\ threads # <<>>
    /\ sched.mode = "racy"
    /\ LostRegions # {}
    /\ \E i \in 1..Len(blocks), r \in LostRegions : InPayload(regions, r, blocks[i])

====
